---- MODULE Spec2Model ----
(***************************************************************************)
(* Key backup routes of src/client_server/backup.rs.                       *)
(*                                                                         *)
(* The route handlers are translated from the source.  The storage layer   *)
(* they call (db.key_backups, db.globals) lives outside these sources and  *)
(* is modelled from the design document: VersionRegistry (4.1), KeyStore   *)
(* (4.2), Aggregator (4.4).                                                *)
(*                                                                         *)
(*  - db.globals is one monotonic counter; create_backup takes the next    *)
(*    value as the version id and as the first etag of the version.        *)
(*  - the latest version of a user is the greatest version id stored for   *)
(*    the user.                                                            *)
(*  - create_backup, update_backup and add_key are handed &db.globals and  *)
(*    write a fresh counter value as the etag; the delete_* calls are not  *)
(*    handed it and leave the etag alone.                                  *)
(*  - get_etag of a version without metadata is an error, which the        *)
(*    routes propagate with `?`.                                           *)
(*  - a store call that fails stores nothing (key-level atomicity, 7);    *)
(*    the failure of add_key inside the add_backup_keys loop is an input   *)
(*    of its own action.                                                   *)
(***************************************************************************)
EXTENDS Integers, Sequences, FiniteSets, TLC

\* ---- bounds and input domains ------------------------------------------
MaxCount == 4          \* cap of the db.globals counter
MaxInflightCount == 5  \* cap of the db.globals counter for the concurrent handlers
MaxBatch == 2          \* largest number of keys in one batch request
MaxBackups == 2        \* create_backup calls in one run
MaxKeys == 2           \* keys held by the store at any one time

Users      == {"@alice:x", "@bob:x"}

\* `n as u32`: n modulo 2^32, computed on 16-bit halves
as_u32(n) == (n % 65536) + 65536 * ((n \div 65536) % 65536)

VARIABLES
    db,        \* the database behind DatabaseGuard: globals counter, backups, keys
    last,      \* the response of the handler call that ran last
    created,   \* per user, the version ids returned by create_backup, in order
    inflight,  \* per concurrent request handler, the request it is serving and its position
    inputs     \* the values the requests of this run are drawn from

vars == <<db, last, created, inflight, inputs>>

\* A run draws its requests from one of three small universes: one user with four
\* (room, session) pairs; one user with two key data values and two algorithms; two
\* users.  The concurrent handlers serve the second.
accounts   == inputs.users
Rooms      == inputs.rooms
Sessions   == inputs.sessions
KeyData    == inputs.key_data
Algorithms == inputs.algorithms
ManyKeys   == [users |-> {"@alice:x"}, rooms |-> {1, 2}, sessions |-> {1, 2},
               key_data |-> {"k1"}, algorithms |-> {"alg1"}]
ManyValues == [users |-> {"@alice:x"}, rooms |-> {1}, sessions |-> {1, 2},
               key_data |-> {"k1", "k2"}, algorithms |-> {"alg1", "alg2"}]
TwoUsers   == [users |-> Users, rooms |-> {1}, sessions |-> {1},
               key_data |-> {"k1"}, algorithms |-> {"alg1"}]

\* every version id create_backup has handed out, to any user
Issued == UNION {{created[u][i] : i \in 1..Len(created[u])} : u \in Users}

\* ---- Option<T> ----------------------------------------------------------
None    == <<>>
Some(x) == <<x>>

\* ---- ordered key-value maps ----------------------------------------------
Put(f, k, val) == [x \in (DOMAIN f) \cup {k} |-> IF x = k THEN val ELSE f[x]]
Remove(f, K)   == [x \in (DOMAIN f) \ K |-> f[x]]
EmptyMap       == <<>>

PairLess(a, b) == a[1] < b[1] \/ (a[1] = b[1] /\ a[2] < b[2])
FirstPair(D)   == CHOOSE a \in D : \A b \in D \ {a} : PairLess(a, b)

\* ---- db.globals -----------------------------------------------------------
next_count(d) == d.globals + 1

\* ---- db.key_backups: VersionRegistry ------------------------------------
user_versions(d, u) == {k[2] : k \in {x \in DOMAIN d.backups : x[1] = u}}

MaxOf(S) == CHOOSE x \in S : \A y \in S : y <= x

\* variant of get_latest_backup_version that takes the user's first version
get_first_backup_version(d, u) ==
    IF user_versions(d, u) = {} THEN None
    ELSE Some(CHOOSE x \in user_versions(d, u) : \A y \in user_versions(d, u) : x <= y)

get_latest_backup_version(d, u) ==
    IF user_versions(d, u) = {} THEN None ELSE Some(MaxOf(user_versions(d, u)))

get_backup(d, u, v) ==
    IF <<u, v>> \in DOMAIN d.backups THEN Some(d.backups[<<u, v>>].algorithm) ELSE None

get_latest_backup(d, u) ==
    IF get_latest_backup_version(d, u) = None THEN None
    ELSE LET v == get_latest_backup_version(d, u)[1]
         IN  Some(<<v, d.backups[<<u, v>>].algorithm>>)

get_etag(d, u, v) ==
    IF <<u, v>> \in DOMAIN d.backups THEN Some(d.backups[<<u, v>>].etag) ELSE None

\* variant of create_backup that numbers a version after the user's latest one
create_backup_after_latest(d, u, alg) ==
    LET version == IF user_versions(d, u) = {} THEN 1 ELSE MaxOf(user_versions(d, u)) + 1
        etag    == next_count(d)
    IN  [version |-> version,
         db |-> [d EXCEPT !.globals = etag,
                          !.backups = Put(@, <<u, version>>,
                                          [algorithm |-> alg, etag |-> etag])]]

\* returns the new version id together with the database after the call
create_backup(d, u, alg) ==
    LET version == next_count(d)
        etag    == version
    IN  [version |-> version,
         db |-> [d EXCEPT !.globals = etag,
                          !.backups = Put(@, <<u, version>>,
                                          [algorithm |-> alg, etag |-> etag])]]

update_backup(d, u, v, alg) ==
    [d EXCEPT !.globals = next_count(d),
              !.backups = Put(@, <<u, v>>, [algorithm |-> alg, etag |-> next_count(d)])]

\* ---- db.key_backups: KeyStore -------------------------------------------
version_keys(d, u, v) == {k \in DOMAIN d.keys : k[1] = u /\ k[2] = v}
room_keys(d, u, v, r) == {k \in version_keys(d, u, v) : k[3] = r}

count_keys(d, u, v) == Cardinality(version_keys(d, u, v))

get_all(d, u, v) ==
    [p \in {<<k[3], k[4]>> : k \in version_keys(d, u, v)} |-> d.keys[<<u, v, p[1], p[2]>>]]

get_room(d, u, v, r) ==
    [p \in {<<k[3], k[4]>> : k \in room_keys(d, u, v, r)} |-> d.keys[<<u, v, p[1], p[2]>>]]

get_session(d, u, v, r, s) ==
    IF <<u, v, r, s>> \in DOMAIN d.keys THEN Some(d.keys[<<u, v, r, s>>]) ELSE None

advance_etag(d, u, v) ==
    IF <<u, v>> \in DOMAIN d.backups
    THEN [d EXCEPT !.globals = next_count(d), !.backups[<<u, v>>].etag = next_count(d)]
    ELSE d

\* variant of add_key that keeps the payload of an identity that is already stored
add_key_keep_existing(d, u, v, r, s, data) ==
    LET e == advance_etag(d, u, v)
    IN  IF <<u, v, r, s>> \in DOMAIN d.keys THEN e
        ELSE [e EXCEPT !.keys = Put(@, <<u, v, r, s>>, data)]

add_key(d, u, v, r, s, data) ==
    LET e == advance_etag(d, u, v)
    IN  [e EXCEPT !.keys = Put(@, <<u, v, r, s>>, data)]

\* variant of delete_all_keys that scans the keys by version id alone
delete_all_keys_any_user(d, u, v) ==
    [d EXCEPT !.keys = Remove(@, {k \in DOMAIN d.keys : k[2] = v})]

delete_all_keys(d, u, v)     == [d EXCEPT !.keys = Remove(@, version_keys(d, u, v))]
delete_room_keys(d, u, v, r) == [d EXCEPT !.keys = Remove(@, room_keys(d, u, v, r))]
delete_room_key(d, u, v, r, s) == [d EXCEPT !.keys = Remove(@, {<<u, v, r, s>>})]

delete_backup(d, u, v) ==
    [d EXCEPT !.backups = Remove(@, {<<u, v>>}),
              !.keys    = Remove(@, version_keys(d, u, v))]

\* ---- requests -------------------------------------------------------------
\* body.rooms of add_backup_keys: (room_id, session_id) -> key_data, iterated in key order
PairSets == {D \in SUBSET (Rooms \X Sessions) : Cardinality(D) <= MaxBatch}
Batches  == UNION {[D -> KeyData] : D \in PairSets}
\* body.sessions of add_backup_key_sessions for room r, as the same kind of map
RoomBatches(r) == {m \in Batches : \A p \in DOMAIN m : p[1] = r}

\* ---- responses ------------------------------------------------------------
\* A response record carries the request (route, user, version, room, session, keys,
\* submitted = number of keys in the request), the outcome (status, flushed, count,
\* etag, algorithm) and two observations of the call: before = number of keys the
\* version held when the call started, failed_at = position of the add_key call that
\* failed (0 if none did).
Resp(route, u, v, status) ==
    [route |-> route, user |-> u, version |-> v, room |-> 0, session |-> 0,
     status |-> status, flushed |-> FALSE, count |-> 0, etag |-> 0, submitted |-> 0,
     before |-> 0, failed_at |-> 0, algorithm |-> "", keys |-> EmptyMap]

\* Response { count: count_keys(..) as u32, etag: get_etag(..)? } after db.flush()
CountEtagResponse(route, u, v, d) ==
    IF get_etag(d, u, v) = None
    THEN [Resp(route, u, v, "Error") EXCEPT !.flushed = TRUE]
    ELSE [Resp(route, u, v, "Ok") EXCEPT !.flushed = TRUE,
                                         !.count = as_u32(count_keys(d, u, v)),
                                         !.etag = get_etag(d, u, v)[1]]

\* variant of not_latest that only asks whether the version exists
not_latest_exists(d, u, v) == get_backup(d, u, v) = None

\* if Some(&body.version) != get_latest_backup_version(sender_user) { return Err(InvalidParam) }
not_latest(d, u, v) == Some(v) /= get_latest_backup_version(d, u)

\* for (room_id, room) in &body.rooms { for (session_id, key_data) in &room.sessions { add_key(..)? } }
RECURSIVE add_keys(_, _, _, _)
add_keys(d, u, v, m) ==
    IF DOMAIN m = {} THEN d
    ELSE LET p == FirstPair(DOMAIN m)
         IN  add_keys(add_key(d, u, v, p[1], p[2], m[p]), u, v, Remove(m, {p}))

\* ---- route handlers -------------------------------------------------------
create_backup_route(u, alg) ==
    /\ db.globals + 1 <= MaxCount
    /\ Cardinality(Issued) < MaxBackups
    /\ LET version == create_backup(db, u, alg).version
       IN  /\ db' = create_backup(db, u, alg).db
           /\ last' = [Resp("create_backup", u, version, "Ok") EXCEPT
                           !.flushed = TRUE, !.algorithm = alg]
           /\ created' = [created EXCEPT ![u] = Append(@, version)]
    /\ UNCHANGED <<inflight, inputs>>

\* variant of update_backup_route behind the latest-version check
update_backup_route_latest_only(u, v, alg) ==
    /\ db.globals + 1 <= MaxCount
    /\ IF Some(v) /= get_latest_backup_version(db, u)
       THEN /\ db' = db
            /\ last' = [Resp("update_backup", u, v, "NotFound") EXCEPT !.algorithm = alg]
       ELSE /\ db' = update_backup(db, u, v, alg)
            /\ last' = [Resp("update_backup", u, v, "Ok") EXCEPT
                            !.flushed = TRUE, !.algorithm = alg]
    /\ UNCHANGED <<created, inflight, inputs>>

update_backup_route(u, v, alg) ==
    /\ db.globals + 1 <= MaxCount
    /\ IF get_backup(db, u, v) = None
       THEN /\ db' = db
            /\ last' = [Resp("update_backup", u, v, "NotFound") EXCEPT !.algorithm = alg]
       ELSE /\ db' = update_backup(db, u, v, alg)
            /\ last' = [Resp("update_backup", u, v, "Ok") EXCEPT
                            !.flushed = TRUE, !.algorithm = alg]
    /\ UNCHANGED <<created, inflight, inputs>>

get_latest_backup_route(u) ==
    /\ IF get_latest_backup(db, u) = None
       THEN last' = Resp("get_latest_backup", u, 0, "NotFound")
       ELSE LET version   == get_latest_backup(db, u)[1][1]
                algorithm == get_latest_backup(db, u)[1][2]
            IN  last' = [CountEtagResponse("get_latest_backup", u, version, db) EXCEPT
                            !.flushed = FALSE, !.algorithm = algorithm]
    /\ UNCHANGED <<db, created, inflight, inputs>>

get_backup_route(u, v) ==
    /\ IF get_backup(db, u, v) = None
       THEN last' = Resp("get_backup", u, v, "NotFound")
       ELSE last' = [CountEtagResponse("get_backup", u, v, db) EXCEPT
                        !.flushed = FALSE, !.algorithm = get_backup(db, u, v)[1]]
    /\ UNCHANGED <<db, created, inflight, inputs>>

\* variant of delete_backup_route behind the latest-version check
delete_backup_route_guarded(u, v) ==
    /\ IF Some(v) /= get_latest_backup_version(db, u)
       THEN /\ db' = db
            /\ last' = [Resp("delete_backup", u, v, "InvalidParam") EXCEPT
                            !.before = count_keys(db, u, v)]
       ELSE /\ db' = delete_backup(db, u, v)
            /\ last' = [Resp("delete_backup", u, v, "Ok") EXCEPT !.before = count_keys(db, u, v), !.flushed = TRUE]
    /\ UNCHANGED <<created, inflight, inputs>>

\* variant of delete_backup_route that removes the version's metadata only
delete_backup_route_metadata_only(u, v) ==
    /\ db' = [db EXCEPT !.backups = Remove(@, {<<u, v>>})]
    /\ last' = [Resp("delete_backup", u, v, "Ok") EXCEPT !.before = count_keys(db, u, v), !.flushed = TRUE]
    /\ UNCHANGED <<created, inflight, inputs>>

delete_backup_route(u, v) ==
    /\ db' = delete_backup(db, u, v)
    /\ last' = [Resp("delete_backup", u, v, "Ok") EXCEPT !.before = count_keys(db, u, v), !.flushed = TRUE]
    /\ UNCHANGED <<created, inflight, inputs>>

\* the first n keys of a request in iteration order
RECURSIVE Prefix(_, _)
Prefix(m, n) ==
    IF n = 0 \/ DOMAIN m = {} THEN EmptyMap
    ELSE LET p == FirstPair(DOMAIN m)
         IN  Put(Prefix(Remove(m, {p}), n - 1), p, m[p])

\* variant of add_backup_keys_storage_failure that goes on with the loop after the
\* failed add_key and reports the failure at the end
add_backup_keys_storage_failure_ignored(u, v, rooms, i) ==
    /\ i \in 1..Cardinality(DOMAIN rooms)
    /\ db.globals + Cardinality(DOMAIN rooms) - 1 <= MaxCount
    /\ ~not_latest(db, u, v)
    /\ LET failed == CHOOSE p \in DOMAIN Prefix(rooms, i) : p \notin DOMAIN Prefix(rooms, i - 1)
       IN  db' = add_keys(db, u, v, Remove(rooms, {failed}))
    /\ Cardinality(DOMAIN db'.keys) <= MaxKeys
    /\ last' = [Resp("add_backup_keys", u, v, "StorageFailure") EXCEPT
                    !.before = count_keys(db, u, v), !.submitted = Cardinality(DOMAIN rooms),
                    !.failed_at = i, !.keys = rooms]
    /\ UNCHANGED <<created, inflight, inputs>>

\* add_backup_keys_route when the store fails in the i-th add_key call of the loop:
\* the `?` returns the error at once, before db.flush(); the failed add_key has stored
\* nothing
add_backup_keys_storage_failure(u, v, rooms, i) ==
    /\ i \in 1..Cardinality(DOMAIN rooms)
    /\ db.globals + (i - 1) <= MaxCount
    /\ ~not_latest(db, u, v)
    /\ db' = add_keys(db, u, v, Prefix(rooms, i - 1))
    /\ Cardinality(DOMAIN db'.keys) <= MaxKeys
    /\ last' = [Resp("add_backup_keys", u, v, "StorageFailure") EXCEPT
                    !.before = count_keys(db, u, v), !.submitted = Cardinality(DOMAIN rooms),
                    !.failed_at = i, !.keys = rooms]
    /\ UNCHANGED <<created, inflight, inputs>>

add_backup_keys_route(u, v, rooms) ==
    /\ db.globals + Cardinality(DOMAIN rooms) <= MaxCount
    /\ Cardinality(DOMAIN add_keys(db, u, v, rooms).keys) <= MaxKeys
    /\ IF not_latest(db, u, v)
       THEN /\ db' = db
            /\ last' = [Resp("add_backup_keys", u, v, "InvalidParam") EXCEPT
                            !.before = count_keys(db, u, v), !.submitted = Cardinality(DOMAIN rooms)]
       ELSE /\ db' = add_keys(db, u, v, rooms)
            /\ last' = [CountEtagResponse("add_backup_keys", u, v, db') EXCEPT
                            !.before = count_keys(db, u, v), !.submitted = Cardinality(DOMAIN rooms)]
    /\ UNCHANGED <<created, inflight, inputs>>

add_backup_key_sessions_route(u, v, r, sessions) ==
    /\ db.globals + Cardinality(DOMAIN sessions) <= MaxCount
    /\ Cardinality(DOMAIN add_keys(db, u, v, sessions).keys) <= MaxKeys
    /\ IF not_latest(db, u, v)
       THEN /\ db' = db
            /\ last' = [Resp("add_backup_key_sessions", u, v, "InvalidParam") EXCEPT
                            !.before = count_keys(db, u, v), !.room = r, !.submitted = Cardinality(DOMAIN sessions)]
       ELSE /\ db' = add_keys(db, u, v, sessions)
            /\ last' = [CountEtagResponse("add_backup_key_sessions", u, v, db') EXCEPT
                            !.before = count_keys(db, u, v), !.room = r, !.submitted = Cardinality(DOMAIN sessions)]
    /\ UNCHANGED <<created, inflight, inputs>>

\* variant of add_backup_key_session_route that builds its response before add_key
add_backup_key_session_route_early_response(u, v, r, s, data) ==
    /\ db.globals + 1 <= MaxCount
    /\ Cardinality(DOMAIN add_key(db, u, v, r, s, data).keys) <= MaxKeys
    /\ IF not_latest(db, u, v)
       THEN /\ db' = db
            /\ last' = [Resp("add_backup_key_session", u, v, "InvalidParam") EXCEPT
                            !.before = count_keys(db, u, v), !.room = r, !.session = s, !.submitted = 1,
                            !.keys = Put(EmptyMap, <<r, s>>, data)]
       ELSE /\ db' = add_key(db, u, v, r, s, data)
            /\ last' = [CountEtagResponse("add_backup_key_session", u, v, db) EXCEPT
                            !.before = count_keys(db, u, v), !.room = r, !.session = s, !.submitted = 1,
                            !.keys = Put(EmptyMap, <<r, s>>, data)]
    /\ UNCHANGED <<created, inflight, inputs>>

add_backup_key_session_route(u, v, r, s, data) ==
    /\ db.globals + 1 <= MaxCount
    /\ Cardinality(DOMAIN add_key(db, u, v, r, s, data).keys) <= MaxKeys
    /\ IF not_latest(db, u, v)
       THEN /\ db' = db
            /\ last' = [Resp("add_backup_key_session", u, v, "InvalidParam") EXCEPT
                            !.before = count_keys(db, u, v), !.room = r, !.session = s, !.submitted = 1,
                            !.keys = Put(EmptyMap, <<r, s>>, data)]
       ELSE /\ db' = add_key(db, u, v, r, s, data)
            /\ last' = [CountEtagResponse("add_backup_key_session", u, v, db') EXCEPT
                            !.before = count_keys(db, u, v), !.room = r, !.session = s, !.submitted = 1,
                            !.keys = Put(EmptyMap, <<r, s>>, data)]
    /\ UNCHANGED <<created, inflight, inputs>>

\* variant of get_backup_keys_route that serves the latest version only
get_backup_keys_route_latest_only(u, v) ==
    /\ IF not_latest(db, u, v)
       THEN last' = Resp("get_backup_keys", u, v, "InvalidParam")
       ELSE last' = [Resp("get_backup_keys", u, v, "Ok") EXCEPT !.keys = get_all(db, u, v)]
    /\ UNCHANGED <<db, created, inflight, inputs>>

get_backup_keys_route(u, v) ==
    /\ last' = [Resp("get_backup_keys", u, v, "Ok") EXCEPT !.keys = get_all(db, u, v)]
    /\ UNCHANGED <<db, created, inflight, inputs>>

get_backup_key_sessions_route(u, v, r) ==
    /\ last' = [Resp("get_backup_key_sessions", u, v, "Ok") EXCEPT
                    !.room = r, !.keys = get_room(db, u, v, r)]
    /\ UNCHANGED <<db, created, inflight, inputs>>

get_backup_key_session_route(u, v, r, s) ==
    /\ IF get_session(db, u, v, r, s) = None
       THEN last' = [Resp("get_backup_key_session", u, v, "NotFound") EXCEPT
                        !.room = r, !.session = s]
       ELSE last' = [Resp("get_backup_key_session", u, v, "Ok") EXCEPT
                        !.room = r, !.session = s,
                        !.keys = Put(EmptyMap, <<r, s>>, get_session(db, u, v, r, s)[1])]
    /\ UNCHANGED <<db, created, inflight, inputs>>

delete_backup_keys_route(u, v) ==
    /\ db' = delete_all_keys(db, u, v)
    /\ last' = [CountEtagResponse("delete_backup_keys", u, v, db') EXCEPT
                    !.before = count_keys(db, u, v)]
    /\ UNCHANGED <<created, inflight, inputs>>

delete_backup_key_sessions_route(u, v, r) ==
    /\ db' = delete_room_keys(db, u, v, r)
    /\ last' = [CountEtagResponse("delete_backup_key_sessions", u, v, db') EXCEPT !.before = count_keys(db, u, v), !.room = r]
    /\ UNCHANGED <<created, inflight, inputs>>

\* variant of delete_backup_key_session_route that builds its response before the delete
delete_backup_key_session_route_early_response(u, v, r, s) ==
    /\ db' = delete_room_key(db, u, v, r, s)
    /\ last' = [CountEtagResponse("delete_backup_key_session", u, v, db) EXCEPT
                    !.before = count_keys(db, u, v), !.room = r, !.session = s]
    /\ UNCHANGED <<created, inflight, inputs>>

delete_backup_key_session_route(u, v, r, s) ==
    /\ db' = delete_room_key(db, u, v, r, s)
    /\ last' = [CountEtagResponse("delete_backup_key_session", u, v, db') EXCEPT
                    !.before = count_keys(db, u, v), !.room = r, !.session = s]
    /\ UNCHANGED <<created, inflight, inputs>>

\* ---- one handler call at a time --------------------------------------------
\* version ids a request may name: every id handed out so far, to any user, and one
\* that was never handed out
Versions == Issued \cup {0}
Procs == {1, 2}
Idle  == [pc |-> "idle"]

Init ==
    /\ db = [globals |-> 0, backups |-> EmptyMap, keys |-> EmptyMap]
    /\ last = Resp("none", "", 0, "Ok")
    /\ created = [u \in Users |-> <<>>]
    /\ inflight = [p \in Procs |-> Idle]
    /\ inputs \in {ManyKeys, ManyValues, TwoUsers}

CreateBackup == \E u \in accounts, alg \in Algorithms : create_backup_route(u, alg)
UpdateBackup == \E u \in accounts, v \in Versions, alg \in Algorithms : update_backup_route(u, v, alg)
GetLatestBackup == \E u \in accounts : get_latest_backup_route(u)
GetBackup == \E u \in accounts, v \in Versions : get_backup_route(u, v)
DeleteBackup == \E u \in accounts, v \in Versions : delete_backup_route(u, v)
AddBackupKeys == \E u \in accounts, v \in Versions, rooms \in Batches : add_backup_keys_route(u, v, rooms)
AddBackupKeysStorageFailure ==
    \E u \in accounts, v \in Versions, rooms \in Batches, i \in 1..MaxBatch :
        add_backup_keys_storage_failure(u, v, rooms, i)
AddBackupKeySessions ==
    \E u \in accounts, v \in Versions, r \in Rooms :
        \E sessions \in RoomBatches(r) : add_backup_key_sessions_route(u, v, r, sessions)
AddBackupKeySession ==
    \E u \in accounts, v \in Versions, r \in Rooms, s \in Sessions, data \in KeyData :
        add_backup_key_session_route(u, v, r, s, data)
GetBackupKeys == \E u \in accounts, v \in Versions : get_backup_keys_route(u, v)
GetBackupKeySessions ==
    \E u \in accounts, v \in Versions, r \in Rooms : get_backup_key_sessions_route(u, v, r)
GetBackupKeySession ==
    \E u \in accounts, v \in Versions, r \in Rooms, s \in Sessions :
        get_backup_key_session_route(u, v, r, s)
DeleteBackupKeys == \E u \in accounts, v \in Versions : delete_backup_keys_route(u, v)
DeleteBackupKeySessions ==
    \E u \in accounts, v \in Versions, r \in Rooms : delete_backup_key_sessions_route(u, v, r)
DeleteBackupKeySession ==
    \E u \in accounts, v \in Versions, r \in Rooms, s \in Sessions :
        delete_backup_key_session_route(u, v, r, s)

Next ==
    \/ CreateBackup
    \/ AddBackupKeysStorageFailure
    \/ UpdateBackup
    \/ GetLatestBackup
    \/ GetBackup
    \/ DeleteBackup
    \/ AddBackupKeys
    \/ AddBackupKeySessions
    \/ AddBackupKeySession
    \/ GetBackupKeys
    \/ GetBackupKeySessions
    \/ GetBackupKeySession
    \/ DeleteBackupKeys
    \/ DeleteBackupKeySessions
    \/ DeleteBackupKeySession

Spec == Init /\ [][Next]_vars

\* ---- concurrent request handlers -------------------------------------------
\* Handlers run concurrently; each call on db.key_backups is one atomic step, and
\* nothing in an add-key handler holds the store between its calls.  Each handler
\* task serves one add-key request (the three add-key routes differ only in how the
\* request names its keys); create_backup and delete_backup run beside them.
\* a finished handler: its request and the response it returned
Done(u, v, request, r) ==
    [pc |-> "done", user |-> u, version |-> v, request |-> request,
     status |-> r.status, count |-> r.count, etag |-> r.etag]

\* the handler reads get_latest_backup_version and compares it with body.version
AddCheckLatest(p, u, v, rooms) ==
    /\ inflight[p] = Idle
    /\ db.globals + Cardinality(DOMAIN rooms) <= MaxInflightCount
    /\ IF not_latest(db, u, v)
       THEN inflight' = [inflight EXCEPT ![p] =
                Done(u, v, rooms, Resp("add_backup_keys", u, v, "InvalidParam"))]
       ELSE inflight' = [inflight EXCEPT ![p] =
                [pc |-> "add_key", user |-> u, version |-> v, request |-> rooms,
                 rooms |-> rooms]]
    /\ UNCHANGED <<db, last, created, inputs>>

\* one iteration of the loop: db.key_backups.add_key(..)?
AddKeyStep(p) ==
    /\ inflight[p].pc = "add_key"
    /\ inflight[p].rooms /= EmptyMap
    /\ db.globals + 1 <= MaxInflightCount
    /\ LET r == inflight[p]
           k == FirstPair(DOMAIN r.rooms)
       IN  /\ db' = add_key(db, r.user, r.version, k[1], k[2], r.rooms[k])
           /\ inflight' = [inflight EXCEPT ![p].rooms = Remove(@, {k})]
    /\ UNCHANGED <<last, created, inputs>>

\* db.flush()?; Ok(Response { count, etag })
AddRespond(p) ==
    /\ inflight[p].pc = "add_key"
    /\ inflight[p].rooms = EmptyMap
    /\ LET r == inflight[p]
       IN  inflight' = [inflight EXCEPT ![p] =
               Done(r.user, r.version, r.request,
                    CountEtagResponse("add_backup_keys", r.user, r.version, db))]
    /\ UNCHANGED <<db, last, created, inputs>>

ConcAddCheckLatest ==
    \E p \in Procs, u \in accounts, v \in Versions, rooms \in Batches :
        AddCheckLatest(p, u, v, rooms)
ConcAddKeyStep == \E p \in Procs : AddKeyStep(p)
ConcAddRespond == \E p \in Procs : AddRespond(p)

ConcNext ==
    \/ ConcAddCheckLatest
    \/ ConcAddKeyStep
    \/ ConcAddRespond
    \/ CreateBackup
    \/ DeleteBackup

ConcInit ==
    /\ db = [globals |-> 0, backups |-> EmptyMap, keys |-> EmptyMap]
    /\ last = Resp("none", "", 0, "Ok")
    /\ created = [u \in Users |-> <<>>]
    /\ inflight = [p \in Procs |-> Idle]
    /\ inputs = ManyValues

ConcSpec == ConcInit /\ [][ConcNext]_vars

\* ---- properties -------------------------------------------------------------
AddRoutes       == {"add_backup_keys", "add_backup_key_sessions", "add_backup_key_session"}
DeleteKeyRoutes == {"delete_backup_keys", "delete_backup_key_sessions",
                    "delete_backup_key_session"}

\* the keys of (u, v) as the store holds them: (room_id, session_id) -> key_data
StoredPairs(d, u, v) == {p \in Rooms \X Sessions : <<u, v, p[1], p[2]>> \in DOMAIN d.keys}
Stored(d, u, v) == [p \in StoredPairs(d, u, v) |-> d.keys[<<u, v, p[1], p[2]>>]]

\* the user has a version that is newer than v
HasNewer(d, u, v) == \E k \in DOMAIN d.backups : k[1] = u /\ k[2] > v

\* C1: an add-key call (any of the three routes) whose version is not the user's
\* latest version, or whose user has no version, fails with InvalidParam, leaves the
\* whole database as it was and does not flush.
C1_AddToNonLatestRejected ==
    [][(/\ last'.route \in AddRoutes
        /\ Some(last'.version) /= get_latest_backup_version(db, last'.user))
       => (/\ last'.status = "InvalidParam"
           /\ db' = db
           /\ ~last'.flushed)]_vars

\* an add-key call with a key in it was rejected although its version exists: the
\* version is an older one
C1_Witness ==
    /\ last.route \in AddRoutes
    /\ last.status = "InvalidParam"
    /\ last.submitted >= 1
    /\ <<last.user, last.version>> \in DOMAIN db.backups
    /\ HasNewer(db, last.user, last.version)

\* C2: a key-deleting call (any of the three routes) against an older version of a user
\* who has a newer one fails with InvalidParam and removes no key of the older version;
\* the same call against the latest version succeeds.
C2_DeleteKeysOnOlderVersionRejected ==
    [][/\ (/\ last'.route \in DeleteKeyRoutes
           /\ <<last'.user, last'.version>> \in DOMAIN db.backups
           /\ HasNewer(db, last'.user, last'.version))
          => (/\ last'.status = "InvalidParam"
              /\ Stored(db', last'.user, last'.version) = Stored(db, last'.user, last'.version))
       /\ (/\ last'.route \in DeleteKeyRoutes
           /\ Some(last'.version) = get_latest_backup_version(db, last'.user))
          => last'.status = "Ok"]_vars

\* C3 as stated: a delete_backup call whose version is not the user's latest version is
\* rejected with InvalidParam and leaves the backups and keys in place.
C3_DeleteBackupGuarded ==
    [][(/\ last'.route = "delete_backup"
        /\ <<last'.user, last'.version>> \in DOMAIN db.backups
        /\ Some(last'.version) /= get_latest_backup_version(db, last'.user))
       => (/\ last'.status = "InvalidParam"
           /\ db'.backups = db.backups
           /\ db'.keys = db.keys)]_vars

\* C3 (amended): delete_backup is not behind the latest-version check: every
\* delete_backup call succeeds, latest version or not, removes the metadata and the keys
\* of the version it names, and flushes.
C3_DeleteBackupUnguarded ==
    [][last'.route = "delete_backup"
       => (/\ last'.status = "Ok"
           /\ last'.flushed
           /\ <<last'.user, last'.version>> \notin DOMAIN db'.backups
           /\ StoredPairs(db', last'.user, last'.version) = {})]_vars

\* an older version was deleted while the user's newer version exists
C3_Witness ==
    /\ last.route = "delete_backup"
    /\ last.status = "Ok"
    /\ \E i \in 1..Len(created[last.user]) : created[last.user][i] = last.version
    /\ <<last.user, last.version>> \notin DOMAIN db.backups
    /\ HasNewer(db, last.user, last.version)

\* C4: no key is written to a version at a moment when the same user already has a
\* newer version, under every interleaving of the handlers.
C4_NoWriteBehindNewerVersion ==
    [][\A k \in DOMAIN db'.keys :
          (k \notin DOMAIN db.keys \/ db'.keys[k] /= db.keys[k])
          => ~HasNewer(db, k[1], k[2])]_vars

\* C5: the version ids create_backup returned to a user are strictly increasing in the
\* order of the calls, whatever was deleted in between.
C5_VersionIdsIncrease ==
    \A u \in Users : \A i, j \in 1..Len(created[u]) :
        i < j => created[u][i] < created[u][j]

\* a second create_backup has just returned, after the user's first version was deleted
C5_Witness ==
    /\ last.route = "create_backup"
    /\ Len(created[last.user]) = 2
    /\ DOMAIN db.backups = {<<last.user, last.version>>}

\* the version id of the user's most recent create_backup whose version still exists
Living(u) == {i \in 1..Len(created[u]) : <<u, created[u][i]>> \in DOMAIN db.backups}
NewestLiving(u) ==
    IF Living(u) = {} THEN None
    ELSE Some(created[u][CHOOSE i \in Living(u) : \A j \in Living(u) : j <= i])

C7_ReadsOfAnyVersion ==
    /\ [](/\ last.route = "get_backup_keys"
             => /\ last.status = "Ok"
                /\ last.keys = Stored(db, last.user, last.version)
          /\ last.route = "get_backup_key_sessions"
             => /\ last.status = "Ok"
                /\ DOMAIN last.keys = {p \in StoredPairs(db, last.user, last.version) :
                                          p[1] = last.room}
                /\ \A p \in DOMAIN last.keys :
                      last.keys[p] = Stored(db, last.user, last.version)[p]
          /\ last.route = "get_backup_key_session"
             => IF <<last.room, last.session>> \in StoredPairs(db, last.user, last.version)
                THEN /\ last.status = "Ok"
                     /\ DOMAIN last.keys = {<<last.room, last.session>>}
                     /\ last.keys[<<last.room, last.session>>] =
                            Stored(db, last.user, last.version)[<<last.room, last.session>>]
                ELSE last.status = "NotFound")
    /\ [][\A u \in Users : \A v \in Issued :
             (last'.user /= u \/ last'.version /= v)
             => Stored(db', u, v) = Stored(db, u, v)]_vars

\* get_backup_keys returned the keys of an older version while the newer version holds
\* a key the older one does not have
C7_Witness ==
    /\ last.route = "get_backup_keys"
    /\ last.status = "Ok"
    /\ last.keys /= EmptyMap
    /\ \E k \in DOMAIN db.keys :
          /\ k[1] = last.user
          /\ k[2] > last.version
          /\ <<k[3], k[4]>> \notin DOMAIN last.keys

\* C8: the count in a response is the number of distinct (room_id, session_id) pairs
\* stored under the version; adding a pair that is already stored and deleting a pair
\* that is not stored leave it as it was.
C8_CountIsNumberOfPairs ==
    /\ []((/\ last.route \in AddRoutes \cup DeleteKeyRoutes \cup {"get_backup", "get_latest_backup"}
           /\ last.status = "Ok")
          => last.count = Cardinality(StoredPairs(db, last.user, last.version)))
    /\ [][(/\ last'.route \in {"add_backup_key_session", "delete_backup_key_session"}
           /\ last'.status = "Ok"
           /\ (last'.route = "add_backup_key_session")
                 = (<<last'.room, last'.session>> \in
                        StoredPairs(db, last'.user, last'.version)))
          => last'.count = Cardinality(StoredPairs(db, last'.user, last'.version))]_vars

\* a single key was added beside another one: the response counts two
C8_Witness ==
    /\ last.route = "add_backup_key_session"
    /\ last.status = "Ok"
    /\ last.count = 2

C10_DeleteChangesEtag ==
    [][(/\ last'.route \in DeleteKeyRoutes
        /\ last'.status = "Ok"
        /\ Stored(db', last'.user, last'.version) /= Stored(db, last'.user, last'.version))
       => Some(last'.etag) /= get_etag(db, last'.user, last'.version)]_vars

ReadRoutes == {"get_latest_backup", "get_backup", "get_backup_keys",
               "get_backup_key_sessions", "get_backup_key_session"}

\* what the store holds of version v of user u: metadata (algorithm, etag) and keys
VersionState(d, u, v) ==
    [backup |-> IF <<u, v>> \in DOMAIN d.backups THEN Some(d.backups[<<u, v>>]) ELSE None,
     keys   |-> Stored(d, u, v)]

\* C11: a read leaves the whole store unchanged (every version's etag, algorithm, keys
\* and count, and every user's latest version), and a version whose etag is the same
\* before and after a call has not been changed by the call.
C11_ReadsChangeNothingEqualEtagNoMutation ==
    /\ [][last'.route \in ReadRoutes => db' = db]_vars
    /\ [][\A k \in (DOMAIN db.backups) \cap (DOMAIN db'.backups) :
             db'.backups[k].etag = db.backups[k].etag
             => VersionState(db', k[1], k[2]) = VersionState(db, k[1], k[2])]_vars

\* the first half of C11 alone: a read leaves the store and the issued ids unchanged
C11_ReadsChangeNothing ==
    [][last'.route \in ReadRoutes => (db' = db /\ created' = created)]_vars

\* C12: a successful delete_backup removes the metadata and every key of the version it
\* names (get_backup and get_session find nothing, get_all is empty) and leaves every
\* other version as it was; a later get_backup or get_backup_key_session of a version
\* without metadata and keys answers NotFound.
C12_DeleteBackupCascades ==
    /\ [][(last'.route = "delete_backup" /\ last'.status = "Ok")
          => /\ get_backup(db', last'.user, last'.version) = None
             /\ \A p \in StoredPairs(db, last'.user, last'.version) :
                   get_session(db', last'.user, last'.version, p[1], p[2]) = None
             /\ get_all(db', last'.user, last'.version) = EmptyMap
             /\ \A u \in Users : \A v \in Issued :
                   <<u, v>> /= <<last'.user, last'.version>>
                   => VersionState(db', u, v) = VersionState(db, u, v)
             /\ db'.globals = db.globals]_vars
    /\ [](/\ (/\ last.route = "get_backup"
              /\ <<last.user, last.version>> \notin DOMAIN db.backups)
             => last.status = "NotFound"
          /\ (/\ last.route = "get_backup_key_session"
              /\ StoredPairs(db, last.user, last.version) = {})
             => last.status = "NotFound"
          /\ (/\ last.route = "get_backup_keys"
              /\ StoredPairs(db, last.user, last.version) = {})
             => last.keys = EmptyMap)

\* delete_backup removed a version that held a key while another version of the user
\* keeps its key
C12_Witness ==
    /\ last.route = "delete_backup"
    /\ last.status = "Ok"
    /\ last.before >= 1
    /\ last.version \in Issued
    /\ <<last.user, last.version>> \notin DOMAIN db.backups
    /\ \E k \in DOMAIN db.keys : k[1] = last.user /\ k[2] /= last.version

\* C13: every stored key belongs to a version whose metadata exists, in every reachable
\* state, also while delete_backup runs between the steps of an add-key handler.
C13_NoOrphanedKeys ==
    \A k \in DOMAIN db.keys : <<k[1], k[2]>> \in DOMAIN db.backups

\* C14: a delete whose target is already absent (a session key, the keys of a room, all
\* keys of a version, a backup version) returns no error and leaves the store unchanged.
C14_DeletesIdempotent ==
    [][/\ (/\ last'.route = "delete_backup"
           /\ <<last'.user, last'.version>> \notin DOMAIN db.backups)
          => (last'.status = "Ok" /\ db' = db)
       /\ (/\ last'.route = "delete_backup_keys"
           /\ StoredPairs(db, last'.user, last'.version) = {})
          => (last'.status = "Ok" /\ db' = db)
       /\ (/\ last'.route = "delete_backup_key_sessions"
           /\ \A p \in StoredPairs(db, last'.user, last'.version) : p[1] /= last'.room)
          => (last'.status = "Ok" /\ db' = db)
       /\ (/\ last'.route = "delete_backup_key_session"
           /\ <<last'.room, last'.session>> \notin StoredPairs(db, last'.user, last'.version))
          => (last'.status = "Ok" /\ db' = db)]_vars

\* the part of C14 that holds: such a delete leaves the store unchanged, and returns no
\* error when the metadata of the version it names exists
C14_AbsentDeleteChangesNothing ==
    [][(/\ last'.route \in DeleteKeyRoutes \cup {"delete_backup"}
        /\ last'.before = 0)
       => /\ Stored(db', last'.user, last'.version) = Stored(db, last'.user, last'.version)
          /\ db'.keys = db.keys
          /\ db'.globals = db.globals
          /\ (<<last'.user, last'.version>> \in DOMAIN db'.backups) => last'.status = "Ok"]_vars

\* C15: a read of a version that does not exist, and a read of a room or a session that
\* does not exist under an existing version, answers NotFound; only get_backup_keys of an
\* existing version without keys answers Ok with an empty mapping.
C15_ReadsOfAbsentAreNotFound ==
    /\ (/\ last.route \in {"get_backup", "get_backup_keys", "get_backup_key_sessions",
                           "get_backup_key_session"}
        /\ <<last.user, last.version>> \notin DOMAIN db.backups)
       => last.status = "NotFound"
    /\ (/\ last.route = "get_backup_key_sessions"
        /\ \A p \in StoredPairs(db, last.user, last.version) : p[1] /= last.room)
       => last.status = "NotFound"
    /\ (/\ last.route = "get_backup_key_session"
        /\ <<last.room, last.session>> \notin StoredPairs(db, last.user, last.version))
       => last.status = "NotFound"
    /\ (/\ last.route = "get_backup_keys"
        /\ <<last.user, last.version>> \in DOMAIN db.backups
        /\ StoredPairs(db, last.user, last.version) = {})
       => (last.status = "Ok" /\ last.keys = EmptyMap)

\* C16: update_backup succeeds exactly when the version it names exists, latest or not,
\* and otherwise answers NotFound and changes nothing; a successful update replaces the
\* algorithm of that version and leaves the set of versions, every user's latest
\* version, the stored keys and the metadata of the other versions as they were.
C16_UpdateReplacesAlgorithmOnly ==
    [][last'.route = "update_backup"
       => /\ last'.status \in {"Ok", "NotFound"}
          /\ (last'.status = "Ok") = (<<last'.user, last'.version>> \in DOMAIN db.backups)
          /\ last'.status = "NotFound" => db' = db
          /\ last'.status = "Ok"
             => /\ get_backup(db', last'.user, last'.version) = Some(last'.algorithm)
                /\ DOMAIN db'.backups = DOMAIN db.backups
                /\ \A u \in Users :
                      get_latest_backup_version(db', u) = get_latest_backup_version(db, u)
                /\ db'.keys = db.keys
                /\ count_keys(db', last'.user, last'.version) =
                       count_keys(db, last'.user, last'.version)
                /\ \A k \in DOMAIN db.backups :
                      k /= <<last'.user, last'.version>> => db'.backups[k] = db.backups[k]]_vars

\* update_backup gave an older version, which holds a key, an algorithm that differs
\* from the one of the newer version
C16_Witness ==
    /\ last.route = "update_backup"
    /\ last.status = "Ok"
    /\ HasNewer(db, last.user, last.version)
    /\ count_keys(db, last.user, last.version) >= 1
    /\ \E k \in DOMAIN db.backups :
          k[1] = last.user /\ k[2] > last.version /\ db.backups[k].algorithm /= last.algorithm

\* C17: a successful add of (room_id, session_id, payload) makes get_session of that
\* identity return exactly that payload, whether or not the identity held a payload
\* before (the last write wins); every other identity of the version keeps its payload
\* and no identity besides the written one appears or disappears.
C17_LastWriteWins ==
    [][(last'.route = "add_backup_key_session" /\ last'.status = "Ok")
       => /\ get_session(db', last'.user, last'.version, last'.room, last'.session) =
                 Some(last'.keys[<<last'.room, last'.session>>])
          /\ StoredPairs(db', last'.user, last'.version) =
                 StoredPairs(db, last'.user, last'.version) \cup {<<last'.room, last'.session>>}
          /\ \A p \in StoredPairs(db, last'.user, last'.version) :
                p /= <<last'.room, last'.session>>
                => Stored(db', last'.user, last'.version)[p] =
                       Stored(db, last'.user, last'.version)[p]]_vars

\* a single add replaced the payload of a stored identity (the count stayed at two) and
\* the other identity still holds a different payload
C17_Witness ==
    /\ last.route = "add_backup_key_session"
    /\ last.status = "Ok"
    /\ last.before = 2
    /\ last.count = 2
    /\ \E p \in StoredPairs(db, last.user, last.version) :
          /\ p /= <<last.room, last.session>>
          /\ Stored(db, last.user, last.version)[p] /=
                 last.keys[<<last.room, last.session>>]

\* the keys a version holds after request a and then request b were applied to none
Merge(a, b) == [p \in (DOMAIN a) \cup (DOMAIN b) |-> IF p \in DOMAIN b THEN b[p] ELSE a[p]]

\* C18: when two concurrent add-key calls on the same version of a user both succeed
\* (the version is the only one ever created, so no other call touched its keys), the
\* keys of the version are those of one of the two serial orders of the calls, the
\* count is the number of distinct pairs they submitted, and the etag is no longer the
\* one the version had before the calls.
C18_NoLostUpdates ==
    (/\ inflight[1].pc = "done" /\ inflight[1].status = "Ok"
     /\ inflight[2].pc = "done" /\ inflight[2].status = "Ok"
     /\ inflight[1].user = inflight[2].user
     /\ inflight[1].version = inflight[2].version
     /\ Issued = {inflight[1].version}
     /\ <<inflight[1].user, inflight[1].version>> \in DOMAIN db.backups)
    => LET u == inflight[1].user
           v == inflight[1].version
           a == inflight[1].request
           b == inflight[2].request
       IN  /\ Stored(db, u, v) \in {Merge(a, b), Merge(b, a)}
           /\ count_keys(db, u, v) = Cardinality((DOMAIN a) \cup (DOMAIN b))
           /\ (a /= EmptyMap \/ b /= EmptyMap) => get_etag(db, u, v) /= Some(v)

\* the same for calls that submit one key each: here the property holds
C18_NoLostUpdatesSingleKey ==
    (/\ inflight[1].pc = "done" /\ inflight[2].pc = "done"
     /\ Cardinality(DOMAIN inflight[1].request) <= 1
     /\ Cardinality(DOMAIN inflight[2].request) <= 1)
    => C18_NoLostUpdates

\* position of pair p in the iteration order of request m
Rank(m, p) == Cardinality({q \in DOMAIN m : PairLess(q, p)}) + 1

UserState(d, u) ==
    [backups |-> [k \in {x \in DOMAIN d.backups : x[1] = u} |-> d.backups[k]],
     keys    |-> [k \in {x \in DOMAIN d.keys : x[1] = u} |-> d.keys[k]],
     latest  |-> get_latest_backup_version(d, u)]

KeyReadRoutes == {"get_backup_keys", "get_backup_key_sessions", "get_backup_key_session"}

\* C20: a call of one user, whatever version, room and session ids it names, leaves the
\* versions, latest version, algorithms, keys, counts and etags of every other user as
\* they were, and a key read returns only keys stored under the calling user.
C20_UsersIsolated ==
    /\ [][\A b \in Users :
             b /= last'.user
             => (UserState(db', b) = UserState(db, b) /\ created'[b] = created[b])]_vars
    /\ []((last.route \in KeyReadRoutes /\ last.status = "Ok")
          => \A p \in DOMAIN last.keys :
                /\ <<last.user, last.version, p[1], p[2]>> \in DOMAIN db.keys
                /\ db.keys[<<last.user, last.version, p[1], p[2]>>] = last.keys[p])
    /\ []((/\ last.route \in KeyReadRoutes \cup {"get_backup"}
           /\ \E b \in Users : b /= last.user /\ <<b, last.version>> \in DOMAIN db.backups)
          => (last.status = "NotFound" \/ (last.status = "Ok" /\ last.keys = EmptyMap
                                            /\ last.route /= "get_backup")))

\* a user deleted all keys of a version id that belongs to another user, and the other
\* user's key under that version is still stored
C20_Witness ==
    /\ last.route \in {"delete_backup_keys", "delete_backup"}
    /\ last.status \in {"Ok", "Error"}
    /\ \E k \in DOMAIN db.keys : k[1] /= last.user /\ k[2] = last.version

====
